---- MODULE Spec2Model ----
(***************************************************************************)
(* Receive path of the network stack in src/net/netdevice.c: the RX queue, *)
(* the network-layer protocol table, the single static network device and  *)
(* its address table, the dispatcher net_rx_process() and the cooperative  *)
(* process step net_step().                                                *)
(*                                                                         *)
(* Pointers are modelled as indices: a packet buffer is an index into pkb, *)
(* a struct net_protocol * is an index into net_protocols, a struct        *)
(* ll_protocol * an index into ll_protocols; NULL is 0.                    *)
(***************************************************************************)
EXTENDS Integers, Sequences, FiniteSets, TLC

(* ---------------------------------------------------------------- bounds *)

\* Number of packet buffers the drivers ever allocate in one behaviour.
MaxPkb == 2

\* Largest number of packets one call of the device's poll() pushes.
MaxBurst == 2

(* ------------------------------------------------------------- constants *)

NULL == 0

\* Length pulled off the front of every packet by net_rx_process(): the
\* length of an Ethernet header.
ETH_HLEN == 14

\* Magnitude of the status code net_rx_process() returns for an unknown
\* network-layer protocol (returned negated).
EPROTONOSUPPORT == 93

PkbIds == 1 .. MaxPkb

\* Protocol numbers found in the link-layer headers of received frames:
\* IPv4, ARP and IPv6.
WireProtos == {2048, 2054, 34525}

\* The frames the drivers receive: the protocol number in the link-layer
\* header and the length of the frame, link-layer header included.
Frames == {[net_proto |-> 2048, len |-> 60],
           [net_proto |-> 2054, len |-> 64],
           [net_proto |-> 34525, len |-> 78]}

\* Status codes a network-layer handler's rx_process() may return.
HandlerRcs == {0, -1, -EPROTONOSUPPORT}

\* Status codes add_ipv4_address() may return.
AddAddressRcs == {0, -1}

\* The address register_netdev() binds: htonl ( 0x0afefe01 ), as bytes.
static_address == <<10, 254, 254, 1>>

\* Addresses looked up with find_netdev_by_net_addr().
QueryAddrs == <<static_address, <<10, 254, 254, 2>>, <<10, 254, 0, 1>>>>

\* The link-layer protocols a device may use, with the header length each
\* one's parse_llh() consumes.
ll_protocols == <<[name |-> "ethernet", ll_header_len |-> 14],
                  [name |-> "tagged", ll_header_len |-> 18]>>

\* The network-layer protocol tables a build may link: IPv4 and ARP, or
\* IPv4 alone.  Each entry carries its protocol number and address length.
NetProtocolTables ==
    { <<[name |-> "ipv4", net_proto |-> 2048, net_addr_len |-> 4],
        [name |-> "arp", net_proto |-> 2054, net_addr_len |-> 2]>>,
      <<[name |-> "ipv4", net_proto |-> 2048, net_addr_len |-> 4]>> }

\* The address tables a build may link for the static single device: none,
\* or the placeholder address under the first protocol of the table.
NetAddressTables ==
    { <<>>, <<[net_protocol |-> 1, net_addr |-> static_address]>> }

\* The only network device: a pointer to static_single_netdev.
Netdev == 1

(* ------------------------------------------------------------- variables *)

VARIABLES
    net_protocols,                  \* table of registered network-layer protocols
    static_single_netdev_addresses, \* table of the device's network-layer addresses
    static_single_netdev,           \* the device: [ll_protocol]
    rx_queue,                       \* received packet queue, head first
    pkb,                            \* packet buffers: [ll_protocol, net_protocol, net_proto, len, wire_len]
    held,                           \* buffers owned by a caller of net_rx_dequeue()
    delivered,                      \* hand-offs to network-layer handlers, in order
    freed,                          \* per buffer, the number of free_pkb() calls
    pushed,                         \* every buffer passed to netdev_rx(), in order
    popped,                         \* every buffer returned by net_rx_dequeue(), in order
    scheduled,                      \* number of times net_process is on the run queue
    bound,                          \* addresses bound through add_ipv4_address()
    registered,                     \* register_netdev() succeeded and no unregister since
    initialised,                    \* init_net() has run
    log,                            \* events of the last top-level call
    ret                             \* return value of the last top-level call

static == <<net_protocols, static_single_netdev_addresses, static_single_netdev>>

vars == <<net_protocols, static_single_netdev_addresses, static_single_netdev,
          rx_queue, pkb, held, delivered, freed, pushed, popped, scheduled,
          bound, registered, initialised, log, ret>>

\* The mutable part of the state, as the record the operations transform.
M == [rx_queue |-> rx_queue, pkb |-> pkb, held |-> held,
      delivered |-> delivered, freed |-> freed, pushed |-> pushed,
      popped |-> popped, scheduled |-> scheduled, bound |-> bound,
      registered |-> registered, log |-> log, ret |-> ret]

\* The next state is the record m.
Becomes(m) ==
    /\ rx_queue' = m.rx_queue
    /\ pkb' = m.pkb
    /\ held' = m.held
    /\ delivered' = m.delivered
    /\ freed' = m.freed
    /\ pushed' = m.pushed
    /\ popped' = m.popped
    /\ scheduled' = m.scheduled
    /\ bound' = m.bound
    /\ registered' = m.registered
    /\ log' = m.log
    /\ ret' = m.ret
    /\ UNCHANGED <<static, initialised>>

\* An event of the log: what happened, to which object, with which value.
Event(e, x, v) == [ev |-> e, a |-> x, b |-> v]

Logged(m, e, x, v) == [m EXCEPT !.log = Append(@, Event(e, x, v))]

\* A top-level call starts a fresh log.
Enter(m) == [m EXCEPT !.log = <<>>, !.ret = 0]

(* ------------------------------------------------------ external callees *)

\* free_pkb(): the buffer is released by whoever holds it.
free_pkb(m, id) ==
    Logged([m EXCEPT !.freed[id] = @ + 1, !.held = @ \ {id}], "free_pkb", id, 0)

\* pkb_pull(): remove len bytes from the start of the buffer.
pkb_pull(m, id, len) ==
    Logged([m EXCEPT !.pkb[id].len = @ - len], "pkb_pull", id, len)

\* ll_protocol->parse_llh(): the link-layer header of the buffer, read with
\* the link-layer protocol the buffer is tagged with.
parse_llh(m, id) ==
    [ll_protocol |-> m.pkb[id].ll_protocol, net_proto |-> m.pkb[id].net_proto]

\* net_protocol->rx_process(): the handler takes the buffer as it is now
\* and returns rc.
rx_process(m, net_protocol, id, rc) ==
    LET m1 == [m EXCEPT !.held = @ \ {id},
                        !.delivered = Append(@, [handler |-> net_protocol,
                                                 pkb |-> id,
                                                 len |-> m.pkb[id].len,
                                                 tag |-> m.pkb[id].net_protocol])]
    IN Logged(Logged(m1, "rx_process", id, net_protocol), "rx_process_ret", id, rc)

\* schedule(): put the process on the run queue.
schedule(m) ==
    Logged([m EXCEPT !.scheduled = @ + 1], "schedule", 0, 0)

\* add_ipv4_address(): on success the address is bound to the device.
add_ipv4_address(m, netdev, address, rc) ==
    IF rc = 0
    THEN [m EXCEPT !.bound = @ \cup {[net_proto |-> 2048, net_addr |-> address]}]
    ELSE m

\* del_ipv4_address(): every address bound to the device is released.
del_ipv4_address(m, netdev) == [m EXCEPT !.bound = {}]

\* memcmp(): 0 when the first len bytes agree, else the first difference.
memcmp(s1, s2, len) ==
    LET diff == {i \in 1 .. len : s1[i] # s2[i]}
        first == CHOOSE i \in diff : \A j \in diff : i <= j
    IN IF diff = {} THEN 0 ELSE s1[first] - s2[first]

(* ------------------------------------------------------------ netdevice *)

\* list_add(): the entry goes to the head of the list instead of the tail.
list_add(queue, id) == <<id>> \o queue

\* list_add_tail ( &pkb->list, &rx_queue )
list_add_tail(queue, id) == Append(queue, id)

\* Add packet to receive queue.
netdev_rx(m, netdev, id) ==
    LET m1 == [m EXCEPT !.pkb[id].ll_protocol = static_single_netdev.ll_protocol]
        m2 == [m1 EXCEPT !.rx_queue = list_add_tail(@, id),
                         !.pushed = Append(@, id)]
    IN Logged(m2, "netdev_rx", id, m2.pkb[id].ll_protocol)

\* The driver receives one frame in a fresh buffer and passes it up.
driver_rx(m, netdev, frame) ==
    LET id == Len(m.pushed) + 1
        m1 == [m EXCEPT !.pkb[id] = [ll_protocol |-> NULL,
                                     net_protocol |-> NULL,
                                     net_proto |-> frame.net_proto,
                                     len |-> frame.len,
                                     wire_len |-> frame.len]]
    IN netdev_rx(m1, netdev, id)

\* netdev->poll(): the driver passes up the frames that have arrived.
RECURSIVE poll(_, _, _)
poll(m, netdev, batch) ==
    IF batch = <<>> THEN m
    ELSE poll(driver_rx(m, netdev, Head(batch)), netdev, Tail(batch))

\* Identify network protocol: the first table entry with the number.
RECURSIVE find_net_protocol_from(_, _)
find_net_protocol_from(net_protocol, net_proto) ==
    IF net_protocol > Len(net_protocols) THEN NULL
    ELSE IF net_protocols[net_protocol].net_proto = net_proto THEN net_protocol
    ELSE find_net_protocol_from(net_protocol + 1, net_proto)

\* A lookup that does not compare the protocol number: the first entry.
find_net_protocol_first(net_proto) ==
    IF Len(net_protocols) >= 1 THEN 1 ELSE NULL

\* A lookup whose scan starts one entry too late.
find_net_protocol_skip_first(net_proto) == find_net_protocol_from(2, net_proto)

find_net_protocol(net_proto) == find_net_protocol_from(1, net_proto)

\* Identify network device by network-layer address.
RECURSIVE find_netdev_from(_, _, _)
find_netdev_from(net_address, net_protocol, net_addr) ==
    IF net_address > Len(static_single_netdev_addresses) THEN NULL
    ELSE IF /\ static_single_netdev_addresses[net_address].net_protocol = net_protocol
            /\ memcmp(static_single_netdev_addresses[net_address].net_addr, net_addr,
                      net_protocols[net_protocol].net_addr_len) = 0
         THEN Netdev
         ELSE find_netdev_from(net_address + 1, net_protocol, net_addr)

find_netdev_by_net_addr(net_protocol, net_addr) ==
    find_netdev_from(1, net_protocol, net_addr)

\* register_netdev() that drops the status of add_ipv4_address().
register_netdev_ignore_rc(m, netdev, rc) ==
    LET m1 == Logged(m, "register_netdev", netdev, 0)
        m2 == Logged(add_ipv4_address(m1, netdev, static_address, rc),
                     "add_ipv4_address", netdev, rc)
    IN [m2 EXCEPT !.ret = 0, !.registered = TRUE]

\* Register network device.  rc is what add_ipv4_address() returns.
register_netdev(m, netdev, rc) ==
    LET m1 == Logged(m, "register_netdev", netdev, 0)
        m2 == Logged(add_ipv4_address(m1, netdev, static_address, rc),
                     "add_ipv4_address", netdev, rc)
    IN IF rc # 0
       THEN [m2 EXCEPT !.ret = rc]
       ELSE [m2 EXCEPT !.ret = 0, !.registered = TRUE]

\* unregister_netdev() that also discards the packets waiting in the queue.
unregister_netdev_flush(m, netdev) ==
    LET m1 == Logged(m, "unregister_netdev", netdev, 0)
        m2 == del_ipv4_address(m1, netdev)
    IN [m2 EXCEPT !.registered = FALSE, !.rx_queue = <<>>]

\* Unregister network device.
unregister_netdev(m, netdev) ==
    LET m1 == Logged(m, "unregister_netdev", netdev, 0)
        m2 == del_ipv4_address(m1, netdev)
    IN [m2 EXCEPT !.registered = FALSE]

\* net_poll() that reports only whether this poll received something.
net_poll_new_only(m, batch) ==
    LET m1 == Logged(m, "net_poll", 0, 0)
        m2 == poll(Logged(m1, "poll", Netdev, IF m1.registered THEN 1 ELSE 0),
                   Netdev, batch)
        rc == IF batch # <<>> THEN 1 ELSE 0
    IN Logged([m2 EXCEPT !.ret = rc], "net_poll_ret", 0, rc)

\* net_poll() that calls the device's poll() a second time.
net_poll_twice(m, batch) ==
    LET m1 == Logged(m, "net_poll", 0, 0)
        m2 == poll(Logged(m1, "poll", Netdev, IF m1.registered THEN 1 ELSE 0),
                   Netdev, batch)
        m3 == Logged(m2, "poll", Netdev, IF m2.registered THEN 1 ELSE 0)
        rc == IF m3.rx_queue # <<>> THEN 1 ELSE 0
    IN Logged([m3 EXCEPT !.ret = rc], "net_poll_ret", 0, rc)

\* Poll for packet on all network devices.
net_poll(m, batch) ==
    LET m1 == Logged(m, "net_poll", 0, 0)
        m2 == poll(Logged(m1, "poll", Netdev, IF m1.registered THEN 1 ELSE 0),
                   Netdev, batch)
        rc == IF m2.rx_queue # <<>> THEN 1 ELSE 0
    IN Logged([m2 EXCEPT !.ret = rc], "net_poll_ret", 0, rc)

\* net_rx_dequeue() without the list_del(): the head stays queued.
net_rx_dequeue_no_del(m) ==
    IF m.rx_queue # <<>>
    THEN LET id == Head(m.rx_queue)
         IN Logged([m EXCEPT !.held = @ \cup {id},
                             !.popped = Append(@, id),
                             !.ret = id],
                   "net_rx_dequeue", id, 0)
    ELSE Logged([m EXCEPT !.ret = NULL], "net_rx_dequeue", NULL, 0)

\* Remove packet from receive queue.
net_rx_dequeue(m) ==
    IF m.rx_queue # <<>>
    THEN LET id == Head(m.rx_queue)
         IN Logged([m EXCEPT !.rx_queue = Tail(@),
                             !.held = @ \cup {id},
                             !.popped = Append(@, id),
                             !.ret = id],
                   "net_rx_dequeue", id, 0)
    ELSE Logged([m EXCEPT !.ret = NULL], "net_rx_dequeue", NULL, 0)

\* net_rx_process() without the free_pkb() for an unknown protocol.
net_rx_process_leak(m, id, rc) ==
    LET m1 == Logged(m, "net_rx_process", id, 0)
        llhdr == parse_llh(m1, id)
        net_protocol == find_net_protocol(llhdr.net_proto)
    IN IF net_protocol = NULL
       THEN Logged([m1 EXCEPT !.ret = -EPROTONOSUPPORT],
                   "net_rx_process_ret", id, -EPROTONOSUPPORT)
       ELSE LET m2 == [m1 EXCEPT !.pkb[id].net_protocol = net_protocol]
                m3 == pkb_pull(m2, id, ETH_HLEN)
                m4 == rx_process(m3, net_protocol, id, rc)
            IN IF rc # 0
               THEN Logged([m4 EXCEPT !.ret = rc], "net_rx_process_ret", id, rc)
               ELSE Logged([m4 EXCEPT !.ret = 0], "net_rx_process_ret", id, 0)

\* net_rx_process() that frees the buffer itself when the handler fails.
net_rx_process_free_on_failure(m, id, rc) ==
    LET m1 == Logged(m, "net_rx_process", id, 0)
        llhdr == parse_llh(m1, id)
        net_protocol == find_net_protocol(llhdr.net_proto)
    IN IF net_protocol = NULL
       THEN LET m2 == free_pkb(m1, id)
            IN Logged([m2 EXCEPT !.ret = -EPROTONOSUPPORT],
                      "net_rx_process_ret", id, -EPROTONOSUPPORT)
       ELSE LET m2 == [m1 EXCEPT !.pkb[id].net_protocol = net_protocol]
                m3 == pkb_pull(m2, id, ETH_HLEN)
                m4 == rx_process(m3, net_protocol, id, rc)
            IN IF rc # 0
               THEN Logged([free_pkb(m4, id) EXCEPT !.ret = rc],
                           "net_rx_process_ret", id, rc)
               ELSE Logged([m4 EXCEPT !.ret = 0], "net_rx_process_ret", id, 0)

\* net_rx_process() that puts the buffer back on the queue when the handler
\* fails.
net_rx_process_requeue(m, id, rc) ==
    LET m1 == Logged(m, "net_rx_process", id, 0)
        llhdr == parse_llh(m1, id)
        net_protocol == find_net_protocol(llhdr.net_proto)
    IN IF net_protocol = NULL
       THEN LET m2 == free_pkb(m1, id)
            IN Logged([m2 EXCEPT !.ret = -EPROTONOSUPPORT],
                      "net_rx_process_ret", id, -EPROTONOSUPPORT)
       ELSE LET m2 == [m1 EXCEPT !.pkb[id].net_protocol = net_protocol]
                m3 == pkb_pull(m2, id, ETH_HLEN)
                m4 == rx_process(m3, net_protocol, id, rc)
            IN IF rc # 0
               THEN Logged([m4 EXCEPT !.ret = rc,
                                      !.rx_queue = list_add_tail(@, id)],
                           "net_rx_process_ret", id, rc)
               ELSE Logged([m4 EXCEPT !.ret = 0], "net_rx_process_ret", id, 0)

\* Process received packet.  rc is what the handler returns if it is called.
net_rx_process(m, id, rc) ==
    LET m1 == Logged(m, "net_rx_process", id, 0)
        llhdr == parse_llh(m1, id)
        net_protocol == find_net_protocol(llhdr.net_proto)
    IN IF net_protocol = NULL
       THEN LET m2 == free_pkb(m1, id)
            IN Logged([m2 EXCEPT !.ret = -EPROTONOSUPPORT],
                      "net_rx_process_ret", id, -EPROTONOSUPPORT)
       ELSE LET m2 == [m1 EXCEPT !.pkb[id].net_protocol = net_protocol]
                m3 == pkb_pull(m2, id, ETH_HLEN)
                m4 == rx_process(m3, net_protocol, id, rc)
            IN IF rc # 0
               THEN Logged([m4 EXCEPT !.ret = rc], "net_rx_process_ret", id, rc)
               ELSE Logged([m4 EXCEPT !.ret = 0], "net_rx_process_ret", id, 0)

\* net_step() with the dequeue in a loop: every queued packet is processed.
RECURSIVE net_rx_drain(_, _)
net_rx_drain(m, rc) ==
    LET m1 == net_rx_dequeue(m)
    IN IF m1.ret # NULL THEN net_rx_drain(net_rx_process(m1, m1.ret, rc), rc) ELSE m1

net_step_drain(m, batch, rc) ==
    LET m1 == Logged(m, "net_step", 0, 0)
        m2 == net_poll(m1, batch)
    IN [schedule(net_rx_drain(m2, rc)) EXCEPT !.ret = 0]

\* net_step() that returns without rescheduling when processing fails.
net_step_no_rearm(m, batch, rc) ==
    LET m1 == Logged(m, "net_step", 0, 0)
        m2 == net_poll(m1, batch)
        m3 == net_rx_dequeue(m2)
        m4 == IF m3.ret # NULL THEN net_rx_process(m3, m3.ret, rc) ELSE m3
    IN IF m3.ret # NULL /\ m4.ret # 0
       THEN [m4 EXCEPT !.ret = 0]
       ELSE [schedule(m4) EXCEPT !.ret = 0]

\* net_step() that handles a packet first and polls afterwards.
net_step_dequeue_first(m, batch, rc) ==
    LET m1 == Logged(m, "net_step", 0, 0)
        m2 == net_rx_dequeue(m1)
        m3 == IF m2.ret # NULL THEN net_rx_process(m2, m2.ret, rc) ELSE m2
        m4 == net_poll(m3, batch)
    IN [schedule(m4) EXCEPT !.ret = 0]

\* Single-step the network stack.  batch is what the poll receives, rc what
\* the handler returns if one is called.
net_step(m, batch, rc) ==
    LET m1 == Logged(m, "net_step", 0, 0)
        m2 == net_poll(m1, batch)
        m3 == net_rx_dequeue(m2)
        m4 == IF m3.ret # NULL THEN net_rx_process(m3, m3.ret, rc) ELSE m3
    IN [schedule(m4) EXCEPT !.ret = 0]

\* Initialise the networking stack process.
init_net(m) == schedule(Logged(m, "init_net", 0, 0))

(* --------------------------------------------------------------- actions *)

\* The bursts a poll may receive when n buffers are still unallocated.
Batches(n) ==
    UNION {[1 .. k -> Frames] : k \in 0 .. (IF n < MaxBurst THEN n ELSE MaxBurst)}

Unallocated == MaxPkb - Len(pushed)

Init ==
    /\ net_protocols \in NetProtocolTables
    /\ static_single_netdev_addresses \in NetAddressTables
    /\ static_single_netdev \in [ll_protocol : 1 .. Len(ll_protocols)]
    /\ rx_queue = <<>>
    /\ pkb = [id \in PkbIds |-> [ll_protocol |-> NULL, net_protocol |-> NULL,
                                 net_proto |-> 0, len |-> 0, wire_len |-> 0]]
    /\ held = {}
    /\ delivered = <<>>
    /\ freed = [id \in PkbIds |-> 0]
    /\ pushed = <<>>
    /\ popped = <<>>
    /\ scheduled = 0
    /\ bound = {}
    /\ registered = FALSE
    /\ initialised = FALSE
    /\ log = <<>>
    /\ ret = 0

\* INIT_FN ( INIT_PROCESS, init_net, NULL, NULL ): run once at start-up.
InitNet ==
    /\ ~initialised
    /\ initialised' = TRUE
    /\ LET m == init_net(Enter(M)) IN
        /\ rx_queue' = m.rx_queue /\ pkb' = m.pkb /\ held' = m.held
        /\ delivered' = m.delivered /\ freed' = m.freed /\ pushed' = m.pushed
        /\ popped' = m.popped /\ scheduled' = m.scheduled /\ bound' = m.bound
        /\ registered' = m.registered /\ log' = m.log /\ ret' = m.ret
    /\ UNCHANGED static

\* The scheduler takes net_process off the run queue and runs its step.
NetStep ==
    /\ initialised
    /\ scheduled > 0
    /\ \E batch \in Batches(Unallocated), rc \in HandlerRcs :
        Becomes(net_step([Enter(M) EXCEPT !.scheduled = @ - 1], batch, rc))

\* A driver passes up one frame outside a poll.
NetdevRx ==
    /\ initialised
    /\ Unallocated > 0
    /\ \E frame \in Frames : Becomes(driver_rx(Enter(M), Netdev, frame))

NetPoll ==
    /\ initialised
    /\ \E batch \in Batches(Unallocated) : Becomes(net_poll(Enter(M), batch))

NetRxDequeue ==
    /\ initialised
    /\ Becomes(net_rx_dequeue(Enter(M)))

\* A caller processes a buffer it has dequeued.
NetRxProcess ==
    /\ initialised
    /\ \E id \in held, rc \in HandlerRcs :
        Becomes(net_rx_process(Enter(M), id, rc))

RegisterNetdev ==
    /\ initialised
    /\ \E rc \in AddAddressRcs : Becomes(register_netdev(Enter(M), Netdev, rc))

UnregisterNetdev ==
    /\ initialised
    /\ Becomes(unregister_netdev(Enter(M), Netdev))

FindNetProtocol ==
    /\ initialised
    /\ \E net_proto \in WireProtos :
        LET r == find_net_protocol(net_proto)
        IN Becomes([Enter(M) EXCEPT !.log = <<Event("find_net_protocol", net_proto, r)>>,
                                    !.ret = r])

FindNetdevByNetAddr ==
    /\ initialised
    /\ \E net_protocol \in 1 .. Len(net_protocols), q \in 1 .. Len(QueryAddrs) :
        LET r == find_netdev_by_net_addr(net_protocol, QueryAddrs[q])
        IN Becomes([Enter(M) EXCEPT !.log = <<Event("find_netdev_by_net_addr",
                                                    net_protocol, q)>>,
                                    !.ret = r])

Next ==
    \/ InitNet
    \/ NetStep
    \/ NetdevRx
    \/ NetPoll
    \/ NetRxDequeue
    \/ NetRxProcess
    \/ RegisterNetdev
    \/ UnregisterNetdev
    \/ FindNetProtocol
    \/ FindNetdevByNetAddr

Spec == Init /\ [][Next]_vars

(* ------------------------------------------------------------ link time *)

\* The network-layer protocol modules a build may link.  Each contributes
\* one entry to the net_protocols table; two of them handle the same
\* protocol number.
NetProtocolModules ==
    { [name |-> "ipv4", net_proto |-> 2048, net_addr_len |-> 4],
      [name |-> "arp", net_proto |-> 2054, net_addr_len |-> 2],
      [name |-> "ipv4_alt", net_proto |-> 2048, net_addr_len |-> 4] }

\* Before anything is linked the table is empty: net_protocols and
\* net_protocols_end mark the same place.
InitLink ==
    /\ net_protocols = <<>>
    /\ static_single_netdev_addresses = <<>>
    /\ static_single_netdev = [ll_protocol |-> 1]
    /\ rx_queue = <<>>
    /\ pkb = [id \in PkbIds |-> [ll_protocol |-> NULL, net_protocol |-> NULL,
                                 net_proto |-> 0, len |-> 0, wire_len |-> 0]]
    /\ held = {}
    /\ delivered = <<>>
    /\ freed = [id \in PkbIds |-> 0]
    /\ pushed = <<>>
    /\ popped = <<>>
    /\ scheduled = 0
    /\ bound = {}
    /\ registered = FALSE
    /\ initialised = FALSE
    /\ log = <<>>
    /\ ret = 0

\* A protocol module is linked: its entry is placed in the table, between
\* net_protocols and net_protocols_end.  Nothing compares it with the
\* entries already there.
LinkNetProtocol ==
    /\ ~initialised
    /\ \E module \in NetProtocolModules :
        /\ \A i \in DOMAIN net_protocols : net_protocols[i] # module
        /\ net_protocols' = Append(net_protocols, module)
    /\ log' = <<Event("link_net_protocol", Len(net_protocols) + 1, 0)>>
    /\ UNCHANGED <<static_single_netdev_addresses, static_single_netdev, rx_queue,
                   pkb, held, delivered, freed, pushed, popped, scheduled, bound,
                   registered, initialised, ret>>

NextLink ==
    \/ LinkNetProtocol
    \/ InitNet
    \/ NetStep
    \/ FindNetProtocol

\* The program from link time on: the table is assembled, then the stack runs.
SpecLink == InitLink /\ [][NextLink]_vars

(* ------------------------------------------------------------- scheduling *)

\* The stack with net_step() as the only consumer of the queue.
NextLive ==
    \/ InitNet
    \/ NetStep
    \/ NetdevRx
    \/ NetPoll
    \/ RegisterNetdev
    \/ UnregisterNetdev

\* net_process is on the run queue and a step would take a packet off the
\* queue: a state in which NetStep is enabled and changes the state.
StepEnabled == initialised /\ scheduled > 0 /\ rx_queue # <<>>

\* The transition is a call of net_step(): every call starts its log anew.
StepOccurs == log' # <<>> /\ log'[1].ev = "net_step"

\* The start-up code runs init_net(), and the scheduler goes on running the
\* process that is on its run queue: weak fairness of InitNet and of NetStep.
\* The latter is written out, []<>~ENABLED \/ []<><<NetStep>>_vars, with
\* StepEnabled for the enabling condition.
SpecLive ==
    /\ Init
    /\ [][NextLive]_vars
    /\ WF_vars(InitNet)
    /\ ([]<>(~StepEnabled) \/ []<><<StepOccurs>>_vars)

(* ---------------------------------------------------- reading the log *)

\* The top-level call that led to this state.
Op(l) == IF l = <<>> THEN "none" ELSE l[1].ev

\* The positions of the events named e.
At(l, e) == {i \in DOMAIN l : l[i].ev = e}

IsEv(x, e) == x.ev = e

\* The buffers passed to netdev_rx() during the call, in order.
PushedIn(l) ==
    LET rx == SelectSeq(l, LAMBDA x : IsEv(x, "netdev_rx"))
    IN [i \in DOMAIN rx |-> rx[i].a]

\* The queue as the call's poll leaves it, given the queue before the call.
AfterPoll(queue, l) == queue \o PushedIn(l)

IsPrefix(s, t) == Len(s) <= Len(t) /\ \A i \in DOMAIN s : s[i] = t[i]

Range(s) == {s[i] : i \in DOMAIN s}

Occurrences(s, x) == Cardinality({i \in DOMAIN s : s[i] = x})

(* ---------------------------------------------------------------- claims *)

\* C1: the buffers returned by non-empty calls of net_rx_dequeue() are, in
\* order, a prefix of the buffers passed to netdev_rx(); what is still queued
\* is exactly the rest, oldest first, so each pop returns the oldest queued
\* buffer; a popped buffer is no longer queued and none is returned twice.
C1_Fifo ==
    /\ IsPrefix(popped, pushed)
    /\ pushed = popped \o rx_queue
    /\ \A i, j \in DOMAIN popped : popped[i] = popped[j] => i = j
    /\ Range(popped) \cap Range(rx_queue) = {}
    /\ Op(log) = "net_rx_dequeue" =>
         ret = (IF popped = <<>> \/ log[1].a = NULL THEN NULL ELSE popped[Len(popped)])

C1_Witness ==
    /\ Op(log) = "net_rx_dequeue"
    /\ Len(popped) = 2
    /\ ret = pushed[2]

\* C2: one net_step() processes at most one packet: with n packets queued
\* after its poll it calls net_rx_process() min(1, n) times and leaves the
\* other max(0, n - 1) queued in their order; with n = 0 the dequeue returns
\* NULL, no handler is called and the queue stays empty.
C2_AtMostOnePerStep ==
    [][ Op(log') = "net_step" =>
          LET q == AfterPoll(rx_queue, log')
              n == Len(q)
          IN /\ Cardinality(At(log', "net_rx_process")) = (IF n >= 1 THEN 1 ELSE 0)
             /\ Cardinality(At(log', "net_rx_dequeue")) = 1
             /\ rx_queue' = (IF n >= 1 THEN Tail(q) ELSE <<>>)
             /\ Len(rx_queue') = (IF n >= 1 THEN n - 1 ELSE 0)
             /\ n >= 1 => \A i \in At(log', "net_rx_process") : log'[i].a = Head(q)
             /\ n = 0 => /\ \A i \in At(log', "net_rx_dequeue") : log'[i].a = NULL
                         /\ At(log', "rx_process") = {}
                         /\ delivered' = delivered
                         /\ rx_queue' = <<>>
      ]_vars

C2_Witness ==
    /\ Op(log) = "net_step"
    /\ Cardinality(At(log, "netdev_rx")) = 2
    /\ Cardinality(At(log, "net_rx_process")) = 1
    /\ rx_queue = <<2>>

\* C3: every net_step() ends by calling schedule(), whatever the dequeue
\* and the dispatch did, so that once init_net() has run net_process is on
\* the run queue whenever control is with the scheduler.
C3_AlwaysRearmed ==
    /\ [](initialised => scheduled = 1)
    /\ [][ Op(log') = "net_step" =>
             /\ log'[Len(log')].ev = "schedule"
             /\ Cardinality(At(log', "schedule")) = 1
             /\ scheduled' = 1
       ]_vars

C3_Witness ==
    /\ Op(log) = "net_step"
    /\ \E i \in At(log, "rx_process_ret") : log[i].b # 0
    /\ log[Len(log)].ev = "schedule"
    /\ scheduled = 1

\* The table entries registered for protocol number net_proto.
RegistryEntries(net_proto) ==
    {i \in DOMAIN net_protocols : net_protocols[i].net_proto = net_proto}

\* The hand-offs of buffer id to a handler.
DeliveriesOf(id) == {i \in DOMAIN delivered : delivered[i].pkb = id}

\* C4: when the protocol number parsed from the buffer has a table entry H,
\* net_rx_process() calls H's rx_process() exactly once and no other
\* handler, has tagged the buffer with H when it hands it over, and returns
\* 0 when the handler returns 0.
C4_DispatchToHandler ==
    \A i \in At(log, "net_rx_process") :
      LET id == log[i].a
      IN \A H \in RegistryEntries(pkb[id].net_proto) :
           /\ \E j \in At(log, "rx_process") :
                /\ At(log, "rx_process") = {j}
                /\ log[j].a = id
                /\ log[j].b = H
           /\ Cardinality(DeliveriesOf(id)) = 1
           /\ \A d \in DeliveriesOf(id) :
                delivered[d].handler = H /\ delivered[d].tag = H
           /\ freed[id] = 0
           /\ \A j \in At(log, "rx_process_ret") :
                log[j].b = 0 =>
                  /\ \A k \in At(log, "net_rx_process_ret") : log[k].b = 0
                  /\ Op(log) = "net_rx_process" => ret = 0

C4_Witness ==
    /\ Op(log) = "net_rx_process"
    /\ ret = 0
    /\ \E j \in At(log, "rx_process") :
         /\ log[j].b = 2
         /\ pkb[log[j].a].net_proto = 2054
         /\ pkb[log[j].a].net_protocol = 2

\* C6: when the protocol number parsed from the buffer has no table entry,
\* net_rx_process() returns -EPROTONOSUPPORT, frees the buffer exactly once,
\* calls no handler and leaves the buffer's header in place; the protocol
\* table is never modified.
C6_UnknownProtocol ==
    /\ [](\A i \in At(log, "net_rx_process") :
            LET id == log[i].a
            IN RegistryEntries(pkb[id].net_proto) = {} =>
                 /\ \E k \in At(log, "net_rx_process_ret") :
                      /\ At(log, "net_rx_process_ret") = {k}
                      /\ log[k].b = -EPROTONOSUPPORT
                 /\ Op(log) = "net_rx_process" => ret = -EPROTONOSUPPORT
                 /\ \E f \in At(log, "free_pkb") :
                      At(log, "free_pkb") = {f} /\ log[f].a = id
                 /\ freed[id] = 1
                 /\ At(log, "rx_process") = {}
                 /\ DeliveriesOf(id) = {}
                 /\ At(log, "pkb_pull") = {}
                 /\ pkb[id].len = pkb[id].wire_len
                 /\ pkb[id].net_protocol = NULL)
    /\ [][net_protocols' = net_protocols]_vars

C6_Witness ==
    /\ Op(log) = "net_rx_process"
    /\ ret = -EPROTONOSUPPORT
    /\ \E f \in At(log, "free_pkb") :
         /\ freed[log[f].a] = 1
         /\ RegistryEntries(pkb[log[f].a].net_proto) = {}

\* C7: when the handler returns a code other than 0, net_rx_process()
\* returns that code and does nothing more to the buffer, in particular
\* does not free it; the net_step() that called it goes on to reschedule
\* itself and returns normally.
C7_HandlerFailure ==
    \A j \in At(log, "rx_process_ret") :
      LET id == log[j].a
      IN log[j].b # 0 =>
           /\ \E k \in At(log, "net_rx_process_ret") :
                /\ At(log, "net_rx_process_ret") = {k}
                /\ log[k].b = log[j].b
           /\ Op(log) = "net_rx_process" => ret = log[j].b
           /\ At(log, "free_pkb") = {}
           /\ freed[id] = 0
           /\ \A k \in DOMAIN log :
                k > j => log[k].ev \in {"net_rx_process_ret", "schedule"}
           /\ Cardinality(DeliveriesOf(id)) = 1
           /\ \A d \in DeliveriesOf(id) :
                /\ delivered[d].len = pkb[id].len
                /\ delivered[d].tag = pkb[id].net_protocol
           /\ Op(log) = "net_step" =>
                /\ log[Len(log)].ev = "schedule"
                /\ scheduled = 1
                /\ ret = 0

C7_Witness ==
    /\ Op(log) = "net_step"
    /\ \E j \in At(log, "rx_process_ret") :
         /\ log[j].b = -1
         /\ freed[log[j].a] = 0
    /\ scheduled = 1

\* The number of holders of buffer id: places in the queue, callers of
\* net_rx_dequeue(), handlers it was handed to, and times it was freed.
Owners(id) ==
    Occurrences(rx_queue, id) + (IF id \in held THEN 1 ELSE 0)
      + Cardinality(DeliveriesOf(id)) + freed[id]

\* C8: every buffer has at most one owner among the driver, the queue, the
\* dispatcher or its caller, a handler, and "destroyed"; a buffer popped by
\* net_step() is, when the step ends, either freed by net_rx_process()
\* because its protocol is unknown or handed to exactly one handler.
C8_SingleOwner ==
    /\ \A id \in PkbIds :
         /\ Owners(id) <= 1
         /\ id \in Range(pushed) <=> Owners(id) = 1
    /\ Op(log) = "net_step" =>
         \A i \in At(log, "net_rx_dequeue") :
           LET id == log[i].a
           IN id # NULL =>
                /\ id \notin held
                /\ id \notin Range(rx_queue)
                /\ freed[id] + Cardinality(DeliveriesOf(id)) = 1
                /\ freed[id] = 1 <=> RegistryEntries(pkb[id].net_proto) = {}

C8_Witness ==
    /\ Op(log) = "net_step"
    /\ \E id \in PkbIds : freed[id] = 1
    /\ \E id \in PkbIds : Cardinality(DeliveriesOf(id)) = 1
    /\ \E i \in At(log, "net_rx_dequeue") : log[i].a # NULL

\* C9: net_poll() returns true exactly when the queue is non-empty once the
\* device has been polled, whether the packets were pushed by this poll or
\* were left from before, and it takes no packet off the queue.
C9_PollResult ==
    [][ /\ \A i \in At(log', "net_poll_ret") :
             /\ log'[i].b \in {0, 1}
             /\ log'[i].b = 1 <=> AfterPoll(rx_queue, log') # <<>>
        /\ Op(log') = "net_poll" =>
             /\ ret' = (IF AfterPoll(rx_queue, log') # <<>> THEN 1 ELSE 0)
             /\ ret' = 1 <=> rx_queue' # <<>>
             /\ rx_queue' = AfterPoll(rx_queue, log')
             /\ popped' = popped
             /\ held' = held
      ]_vars

C9_Witness ==
    /\ Op(log) = "net_poll"
    /\ ret = 1
    /\ At(log, "netdev_rx") = {}
    /\ rx_queue # <<>>

\* C5: the buffer a handler receives is as long as the frame was when it
\* arrived, less the header length of the link-layer protocol that parsed
\* it, whatever that protocol is.
C5_HeaderLengthFromLinkLayer ==
    \A d \in DOMAIN delivered :
      LET p == pkb[delivered[d].pkb]
      IN delivered[d].len = p.wire_len - ll_protocols[p.ll_protocol].ll_header_len

\* Some bound address has protocol number net_proto and agrees with
\* net_addr on the first len bytes.
BoundMatch(net_proto, net_addr, len) ==
    \E b \in bound : b.net_proto = net_proto /\ memcmp(b.net_addr, net_addr, len) = 0

\* C10: find_netdev_by_net_addr ( P, A ) returns the device once the device
\* is bound to ( P, A ), returns NULL once it is unbound, and returns NULL
\* whenever no bound address has protocol P and the first net_addr_len
\* bytes of A.
C10_AddressLookupFollowsBinding ==
    \A P \in DOMAIN net_protocols :
      /\ (Op(log) = "register_netdev" /\ ret = 0 /\ net_protocols[P].net_proto = 2048)
           => find_netdev_by_net_addr(P, static_address) = Netdev
      /\ Op(log) = "unregister_netdev"
           => find_netdev_by_net_addr(P, static_address) = NULL
      /\ \A q \in DOMAIN QueryAddrs :
           (/\ Op(log) = "find_netdev_by_net_addr"
            /\ log[1].a = P
            /\ log[1].b = q
            /\ ~BoundMatch(net_protocols[P].net_proto, QueryAddrs[q],
                           net_protocols[P].net_addr_len))
             => ret = NULL

\* C11: a second handler for a protocol number already in the table is
\* refused and the first entry stays, so that no two entries of
\* net_protocols have the same protocol number and a lookup of the number
\* returns the first handler.
C11_DuplicateProtocolRefused ==
    /\ \A i, j \in DOMAIN net_protocols :
         net_protocols[i].net_proto = net_protocols[j].net_proto => i = j
    /\ Op(log) = "find_net_protocol" =>
         \A i \in RegistryEntries(log[1].a) :
           ret \in RegistryEntries(log[1].a) /\ ret <= i

\* The first table entry registered for protocol number net_proto, or NULL.
FirstEntry(net_proto) ==
    IF RegistryEntries(net_proto) = {} THEN NULL
    ELSE CHOOSE i \in RegistryEntries(net_proto) :
           \A j \in RegistryEntries(net_proto) : i <= j

\* C12: find_net_protocol() only reads: a lookup returns the table's entry
\* for the number (or NULL) and changes nothing, no operation changes the
\* table, and so the result of looking a number up is the same before and
\* after every push, pop, poll and dispatch.
C12_LookupIsPureRead ==
    /\ [](Op(log) = "find_net_protocol" => ret = FirstEntry(log[1].a))
    /\ [][ /\ net_protocols' = net_protocols
           /\ \A net_proto \in WireProtos :
                find_net_protocol(net_proto)' = find_net_protocol(net_proto)
           /\ Op(log') = "find_net_protocol" =>
                /\ ret' = find_net_protocol(log'[1].a)
                /\ UNCHANGED <<static, rx_queue, pkb, held, delivered, freed,
                               pushed, popped, scheduled, bound, registered>>
       ]_vars

C12_Witness ==
    /\ Op(log) = "find_net_protocol"
    /\ ret = 2
    /\ popped # <<>>
    /\ delivered # <<>>
    /\ rx_queue # <<>>

\* C13: register_netdev() binds no network-layer address: the addresses
\* bound to the device are the same after the call as before it.
C13_RegisterBindsNoAddress ==
    [][Op(log') = "register_netdev" => bound' = bound]_vars

\* C18: register_netdev() returns 0 only when add_ipv4_address() returned
\* 0, and otherwise returns the code add_ipv4_address() returned.
C18_RegisterReturnsBindStatus ==
    Op(log) = "register_netdev" =>
      \E j \in At(log, "add_ipv4_address") :
        /\ At(log, "add_ipv4_address") = {j}
        /\ ret = 0 <=> log[j].b = 0
        /\ ret = log[j].b
        /\ ret = 0 => registered

C18_Witness ==
    /\ Op(log) = "register_netdev"
    /\ ret = -1
    /\ \E j \in At(log, "add_ipv4_address") : log[j].b = -1

\* C14: in net_step() the poll is finished before the dequeue: a packet the
\* step's poll pushes onto an empty queue is the one the step dequeues, and
\* if its protocol number is registered it is handed to its handler in that
\* step, once, with no error but the handler's own; when it was the only
\* packet pushed the step leaves the queue empty.
C14_PolledPacketDispatchedInSameStep ==
    [][ (Op(log') = "net_step" /\ rx_queue = <<>> /\ PushedIn(log') # <<>>) =>
          LET id == PushedIn(log')[1]
          IN /\ \E d \in At(log', "net_rx_dequeue") :
                  /\ At(log', "net_rx_dequeue") = {d}
                  /\ log'[d].a = id
                  /\ \A i \in At(log', "poll") \cup At(log', "netdev_rx")
                                \cup At(log', "net_poll_ret") : i < d
             /\ Len(PushedIn(log')) = 1 => rx_queue' = <<>>
             /\ RegistryEntries(pkb'[id].net_proto) # {} =>
                  /\ \E j \in At(log', "rx_process") :
                       /\ At(log', "rx_process") = {j}
                       /\ log'[j].a = id
                       /\ log'[j].b \in RegistryEntries(pkb'[id].net_proto)
                  /\ Cardinality({i \in DOMAIN delivered' : delivered'[i].pkb = id}) = 1
                  /\ freed'[id] = 0
                  /\ \A j \in At(log', "rx_process_ret") :
                       \A k \in At(log', "net_rx_process_ret") : log'[k].b = log'[j].b
                  /\ ret' = 0
      ]_vars

C14_Witness ==
    /\ Op(log) = "net_step"
    /\ PushedIn(log) = <<1>>
    /\ pushed = <<1>>
    /\ rx_queue = <<>>
    /\ pkb[1].net_proto = 2048
    /\ pkb[1].wire_len = 60
    /\ delivered = <<[handler |-> 1, pkb |-> 1, len |-> 46, tag |-> 1]>>
    /\ \E k \in At(log, "net_rx_process_ret") : log[k].b = 0

\* C15: a net_step() calls the poll() of the registered device exactly
\* once, and every poll() call and every packet it pushes comes before the
\* step's dequeue.
C15_PollOnceBeforeDequeue ==
    Op(log) = "net_step" =>
      /\ registered =>
           \E p \in At(log, "poll") :
             /\ At(log, "poll") = {p}
             /\ log[p].a = Netdev
             /\ log[p].b = 1
      /\ \E d \in At(log, "net_rx_dequeue") :
           \A p \in At(log, "poll") \cup At(log, "netdev_rx") : p < d

C15_Witness ==
    /\ Op(log) = "net_step"
    /\ registered
    /\ At(log, "netdev_rx") # {}
    /\ \E d \in At(log, "net_rx_dequeue") : log[d].a # NULL

\* C16: a device that is not registered is not polled: every poll() call a
\* net_step() makes is on a device that register_netdev() has registered
\* and unregister_netdev() has not since removed.
C16_UnregisteredNeverPolled ==
    Op(log) = "net_step" => \A p \in At(log, "poll") : log[p].b = 1

\* C17: net_rx_process() keeps nothing: whether it succeeds, finds no
\* protocol or the handler fails, the queue's contents and order, the
\* protocol table, the device and its addresses are as before the call, and
\* no buffer but the one processed is touched.  The same holds of the
\* dispatch inside net_step(): the queue is the polled queue less its head.
C17_DispatcherKeepsNoState ==
    [][ /\ Op(log') = "net_rx_process" =>
             LET id == log'[1].a
             IN /\ rx_queue' = rx_queue
                /\ UNCHANGED <<static, bound, registered, scheduled, pushed, popped>>
                /\ held' = held \ {id}
                /\ \A other \in PkbIds \ {id} :
                     pkb'[other] = pkb[other] /\ freed'[other] = freed[other]
                /\ \A i \in DOMAIN delivered : delivered'[i] = delivered[i]
        /\ Op(log') = "net_step" =>
             /\ UNCHANGED <<static, bound, registered>>
             /\ held' = held
             /\ rx_queue' = (IF AfterPoll(rx_queue, log') = <<>> THEN <<>>
                             ELSE Tail(AfterPoll(rx_queue, log')))
      ]_vars

C17_Witness ==
    /\ Op(log) = "net_rx_process"
    /\ ret = -1
    /\ rx_queue # <<>>
    /\ bound # {}

\* C20: register_netdev() and unregister_netdev() leave the queue and every
\* buffer as they are, so packets pushed before the device was unregistered
\* stay queued with their link-layer tag; and a later net_step() processes
\* the head of the queue, whether or not the device is registered then.
C20_RegistrationLeavesQueue ==
    [][ /\ Op(log') \in {"register_netdev", "unregister_netdev"} =>
             UNCHANGED <<rx_queue, pkb, held, delivered, freed, pushed, popped>>
        /\ (Op(log') = "net_step" /\ rx_queue # <<>>) =>
             LET id == Head(rx_queue)
             IN /\ \E i \in At(log', "net_rx_process") :
                     At(log', "net_rx_process") = {i} /\ log'[i].a = id
                /\ pkb[id].ll_protocol # NULL
                /\ pkb'[id].ll_protocol = pkb[id].ll_protocol
                /\ rx_queue' = Tail(rx_queue) \o PushedIn(log')
                /\ popped' = Append(popped, id)
      ]_vars

C20_Witness ==
    /\ Op(log) = "unregister_netdev"
    /\ ~registered
    /\ Len(rx_queue) = 2
    /\ \A i \in DOMAIN rx_queue : pkb[rx_queue[i]].ll_protocol # NULL

\* Buffer id has been taken off the queue and passed to net_rx_process(),
\* which freed it or handed it to a handler.
Dispatched(id) ==
    /\ id \in Range(popped)
    /\ id \notin Range(rx_queue)
    /\ freed[id] + Cardinality(DeliveriesOf(id)) = 1

\* C19: if the scheduler keeps running net_step(), every packet on the
\* queue is eventually dequeued and passed to net_rx_process(), however
\* many packets the polls push behind it: each step processes the head and
\* moves every other queued packet one place forward, and nothing else
\* changes a queued packet's place, so a packet with k packets ahead of it
\* is processed by the (k+1)-th step.
C19_EveryPacketDispatched ==
    /\ \A id \in PkbIds : (id \in Range(rx_queue)) ~> Dispatched(id)
    /\ [][ /\ Op(log') = "net_step" =>
                \A p \in DOMAIN rx_queue :
                  IF p = 1
                  THEN /\ \E i \in At(log', "net_rx_process") : log'[i].a = rx_queue[1]
                       /\ rx_queue[1] \notin Range(rx_queue')
                  ELSE rx_queue'[p - 1] = rx_queue[p]
           /\ Op(log') # "net_step" => IsPrefix(rx_queue, rx_queue')
       ]_vars

C19_Witness ==
    /\ Op(log) = "net_step"
    /\ pushed = <<1, 2>>
    /\ popped = <<1, 2>>
    /\ At(log, "netdev_rx") = {}
    /\ \E i \in At(log, "net_rx_process") : log[i].a = 2
    /\ Dispatched(2)

====
